---------------------------- MODULE Spec2Model ----------------------------
(***************************************************************************)
(* The logo script svg/svg.py of cayley as a state machine.                *)
(*                                                                         *)
(* The script is one linear run: it computes the ring geometry, adds the   *)
(* fan edges and the selected ring edges to the drawing, adds the circles, *)
(* saves the static file, registers the flashes, rewrites every begin      *)
(* attribute so that the sequence loops, and saves the animated file.      *)
(*                                                                         *)
(* Times are integers in centiseconds (0.5 s = 50).  Attribute texts are   *)
(* sequences of one-character strings, so that formatting ("+%0.2fs") and  *)
(* concatenation are modelled by what they produce.  A point is [x, y, w]  *)
(* and stands for (x, y + w * sqrt(3)): the six ring points of a hexagon   *)
(* are exact in that form.  An element is referred to by its position in   *)
(* the drawing.                                                            *)
(***************************************************************************)
EXTENDS Integers, Sequences, FiniteSets, TLC

VARIABLES
    pc,            \* position of the script
    i, j,          \* loop indices of the ring-edge and circle loops
    dwg,           \* the drawing: the sequence of elements added so far
    all_lines,     \* references to the lines, in the order they were added
    circle_elems,  \* references to the ring circles
    left_circle, right_circle,   \* references to the fan circles (0: unset)
    anims,         \* references to the registered animation steps
    first, final,  \* handles returned by the first and last flash (0: unset)
    calls,         \* number of flash calls made so far
    ri,            \* position of the rewrite loop in anims
    last_call,     \* the arguments and the result of the latest flash call
    files,         \* the files written: name -> snapshot of the drawing
    timing,        \* playback: each step's begin list and dur, as parsed
    now,           \* playback: time since load or since final last ended
    pending,       \* playback: begin instants not yet reached
    active,        \* playback: the steps running now
    began, ended,  \* playback: the steps that began / ended at this instant
    cycle          \* playback: completions of the final step (saturating)

vars == <<pc, i, j, dwg, all_lines, circle_elems, left_circle, right_circle,
          anims, first, final, calls, ri, last_call, files,
          timing, now, pending, active, began, ended, cycle>>

build_vars == <<pc, i, j, dwg, all_lines, circle_elems, left_circle,
                right_circle, anims, first, final, calls, ri, last_call, files>>

play_vars == <<timing, now, pending, active, began, ended, cycle>>

-----------------------------------------------------------------------------
(* Bounds of the model *)

\* completions of the final step that playback tells apart
MaxCycles == 2
\* flash calls made by the specification that calls flash with any arguments
MaxCalls == 1
\* largest start time, in quarter seconds, tried by that specification
MaxStart == 12

-----------------------------------------------------------------------------
(* Constants of the script *)

node_radius == 15
big_radius == 50
fan_dist == 90
center == <<105, 65>>
edge_stroke == "2.5"

b == "#4285F4"
r == "#DB4437"
g == "#0F9D58"
y == "#F4B400"
n == "#999999"

center_colors == <<b, r, y, b, r, y>>
edge_color == n
\* the fan colour of line 28, which line 38 replaces
fan_color_line28 == "#aa0000"

fan_color == n

-----------------------------------------------------------------------------
(* Geometry *)

\* 2 * cos(2 * pi * k / 6) for k = 0..5
Cos2(k) == <<2, 1, -1, -2, -1, 1>>[k + 1]
\* sin(2 * pi * k / 6) in units of sqrt(3) / 2
Sin2(k) == <<0, 1, 1, 0, -1, -1>>[k + 1]

center_list(c, big_r) ==
    [k \in 1..6 |->
        [x |-> c[1] + (Cos2(k - 1) * big_r) \div 2,
         y |-> c[2],
         w |-> 0 - (Sin2(k - 1) * big_r) \div 2]]

cx == center[1]
cy == center[2]
ring_centers == center_list(center, big_radius)
outer_left == [x |-> cx - fan_dist, y |-> cy, w |-> 0]
outer_right == [x |-> cx + fan_dist, y |-> cy, w |-> 0]
left == ring_centers[3 + 1]
right == ring_centers[0 + 1]

-----------------------------------------------------------------------------
(* Elements of the drawing *)

Line(p, q, color, width) ==
    [tag |-> "line", start |-> p, end |-> q, stroke |-> color, width |-> width]

Circle(c, radius, color) ==
    [tag |-> "circle", center |-> c, r |-> radius, fill |-> color]

Animate(prop, element, from, to, begin, dur) ==
    [tag |-> "animate", attributeName |-> prop, href |-> element,
     from |-> from, to |-> to, begin |-> begin, dur |-> dur]

-----------------------------------------------------------------------------
(* Texts *)

Digit(d) == <<"0", "1", "2", "3", "4", "5", "6", "7", "8", "9">>[d + 1]

RECURSIVE Dec(_)
Dec(m) == IF m < 10 THEN <<Digit(m)>> ELSE Dec(m \div 10) \o <<Digit(m % 10)>>

\* "+%0.2fs" % (cs / 100)
FmtBegin(cs) ==
    <<"+">> \o Dec(cs \div 100) \o <<".">>
            \o <<Digit((cs % 100) \div 10), Digit(cs % 10)>> \o <<"s">>

DurA == <<"1", ".", "0", "s">>
\* a way back that lasts 3.2 s
DurBLong == <<"3", ".", "2", "s">>

DurB == <<"1", ".", "2", "s">>

\* the id of an element: a text that names it and no other element
get_id(e) == <<"i", "d">> \o Dec(e)

-----------------------------------------------------------------------------
(* The script *)

Init ==
    /\ pc = "fan_edges"
    /\ i = 0 /\ j = 0
    /\ dwg = <<>>
    /\ all_lines = <<>>
    /\ circle_elems = <<>>
    /\ left_circle = 0 /\ right_circle = 0
    /\ anims = <<>>
    /\ first = 0 /\ final = 0
    /\ calls = 0
    /\ ri = 0
    /\ last_call = [element |-> 0, orig_color |-> "", start |-> 0,
                    is_line |-> FALSE, base |-> 0, ret |-> 0]
    /\ files = <<>>
    /\ timing = <<>>
    /\ now = 0 /\ pending = {} /\ active = {} /\ began = {} /\ ended = {}
    /\ cycle = 0

\* lines 56-62
FanEdges ==
    /\ pc = "fan_edges"
    /\ dwg' = dwg \o <<Line(outer_left, left, edge_color, edge_stroke),
                       Line(outer_right, right, edge_color, edge_stroke)>>
    /\ all_lines' = all_lines \o <<Len(dwg) + 1, Len(dwg) + 2>>
    /\ pc' = "ring_edges"
    /\ i' = 0 /\ j' = 0
    /\ UNCHANGED <<circle_elems, left_circle, right_circle, anims, first,
                   final, calls, ri, last_call, files>>
    /\ UNCHANGED play_vars

\* the loop without the (1, 2) / (2, 1) rules
SkipsNoDiagonal(a, d) ==
    \/ a > d \/ a = d
    \/ (a % 3) = (d % 3)
    \/ a = 0 /\ d = 3
    \/ a = 3 /\ d = 0

\* the loop without the a > d guard
SkipsNoOrder(a, d) ==
    \/ a = d
    \/ (a % 3) = (d % 3)
    \/ (a % 3) = 1 /\ (d % 3) = 2
    \/ (d % 3) = 1 /\ (a % 3) = 2
    \/ a = 0 /\ d = 3
    \/ a = 3 /\ d = 0

\* the continue conditions of the ring-edge loop, lines 66-77
Skips(a, d) ==
    \/ a > d \/ a = d
    \/ (a % 3) = (d % 3)
    \/ (a % 3) = 1 /\ (d % 3) = 2
    \/ (d % 3) = 1 /\ (a % 3) = 2
    \/ a = 0 /\ d = 3
    \/ a = 3 /\ d = 0

\* the step of the nested enumerate loops: the next pair, or the loop's end
NextPair ==
    /\ j' = IF j = 5 THEN 0 ELSE j + 1
    /\ i' = IF j = 5 THEN (IF i = 5 THEN 0 ELSE i + 1) ELSE i
    /\ pc' = IF i = 5 /\ j = 5 THEN "ring_circles" ELSE "ring_edges"

\* one iteration that continues
SkipPair ==
    /\ pc = "ring_edges"
    /\ Skips(i, j)
    /\ NextPair
    /\ UNCHANGED <<dwg, all_lines, circle_elems, left_circle, right_circle,
                   anims, first, final, calls, ri, last_call, files>>
    /\ UNCHANGED play_vars

\* one iteration that reaches lines 78-80
DrawPair ==
    /\ pc = "ring_edges"
    /\ ~Skips(i, j)
    /\ dwg' = Append(dwg, Line(ring_centers[i + 1], ring_centers[j + 1],
                               edge_color, edge_stroke))
    /\ all_lines' = Append(all_lines, Len(dwg) + 1)
    /\ NextPair
    /\ UNCHANGED <<circle_elems, left_circle, right_circle, anims, first,
                   final, calls, ri, last_call, files>>
    /\ UNCHANGED play_vars

\* lines 83-85, one iteration
RingCircle ==
    /\ pc = "ring_circles"
    /\ dwg' = Append(dwg, Circle(ring_centers[i + 1], node_radius,
                                 center_colors[i + 1]))
    /\ circle_elems' = Append(circle_elems, Len(dwg) + 1)
    /\ i' = IF i = 5 THEN 0 ELSE i + 1
    /\ pc' = IF i = 5 THEN "fan_circles" ELSE "ring_circles"
    /\ UNCHANGED <<j, all_lines, left_circle, right_circle, anims, first,
                   final, calls, ri, last_call, files>>
    /\ UNCHANGED play_vars

\* lines 87-88
FanCircles ==
    /\ pc = "fan_circles"
    /\ dwg' = dwg \o <<Circle(outer_left, node_radius, fan_color),
                       Circle(outer_right, node_radius, fan_color)>>
    /\ left_circle' = Len(dwg) + 1
    /\ right_circle' = Len(dwg) + 2
    /\ pc' = "save_static"
    /\ UNCHANGED <<i, j, all_lines, circle_elems, anims, first, final, calls,
                   ri, last_call, files>>
    /\ UNCHANGED play_vars

\* every file written so far follows the drawing
saveasShared(name) == [f \in (DOMAIN files) \cup {name} |-> dwg]

\* dwg.saveas(name): the file holds the drawing as it is now
saveas(name) == [f \in (DOMAIN files) \cup {name} |->
                    IF f = name THEN dwg ELSE files[f]]

\* line 115
SaveStatic ==
    /\ pc = "save_static"
    /\ files' = saveas("cayley.svg")
    /\ pc' = "flashes"
    /\ UNCHANGED <<i, j, dwg, all_lines, circle_elems, left_circle,
                   right_circle, anims, first, final, calls, ri, last_call>>
    /\ UNCHANGED play_vars

FlashProp(is_line) == IF is_line THEN "stroke" ELSE "fill"

\* lines 97-101: from the original colour to the highlight
StepA(prop, element, orig_color, start) ==
    Animate(prop, element, orig_color, g, FmtBegin(start), DurA)

\* the way back beginning with the way in
StepBNoDelay(prop, element, orig_color, start) ==
    Animate(prop, element, g, orig_color, FmtBegin(start), DurB)

\* lines 105-109: from the highlight back, beginning at start + 1.0
StepB(prop, element, orig_color, start) ==
    Animate(prop, element, g, orig_color, FmtBegin(start + 100), DurB)

\* the handle of the step added first
FlashReturnA == Len(dwg) + 1

\* the handle flash returns, line 113: the step added last
FlashReturn == Len(dwg) + 2

\* lines 92-113; start is in centiseconds
flash(element, orig_color, start, is_line) ==
    /\ dwg' = dwg \o <<StepA(FlashProp(is_line), element, orig_color, start),
                       StepB(FlashProp(is_line), element, orig_color, start)>>
    /\ anims' = anims \o <<Len(dwg) + 1, Len(dwg) + 2>>
    /\ last_call' = [element |-> element, orig_color |-> orig_color,
                     start |-> start, is_line |-> is_line,
                     base |-> Len(anims), ret |-> FlashReturn]

\* the calls of lines 116-131, in order; idx is the position in all_lines
FlashCalls ==
    << [el |-> "left_circle",  idx |-> 0, color |-> n, start |-> 0,   is_line |-> FALSE],
       [el |-> "all_lines",    idx |-> 0, color |-> n, start |-> 50,  is_line |-> TRUE],
       [el |-> "all_lines",    idx |-> 7, color |-> n, start |-> 100, is_line |-> TRUE],
       [el |-> "all_lines",    idx |-> 3, color |-> n, start |-> 150, is_line |-> TRUE],
       [el |-> "all_lines",    idx |-> 9, color |-> n, start |-> 100, is_line |-> TRUE],
       [el |-> "all_lines",    idx |-> 5, color |-> n, start |-> 150, is_line |-> TRUE],
       [el |-> "all_lines",    idx |-> 1, color |-> n, start |-> 200, is_line |-> TRUE],
       [el |-> "right_circle", idx |-> 0, color |-> n, start |-> 250, is_line |-> FALSE],
       [el |-> "left_circle",  idx |-> 0, color |-> n, start |-> 350, is_line |-> FALSE],
       [el |-> "all_lines",    idx |-> 0, color |-> n, start |-> 400, is_line |-> TRUE],
       [el |-> "all_lines",    idx |-> 6, color |-> n, start |-> 450, is_line |-> TRUE],
       [el |-> "all_lines",    idx |-> 4, color |-> n, start |-> 500, is_line |-> TRUE],
       [el |-> "all_lines",    idx |-> 8, color |-> n, start |-> 450, is_line |-> TRUE],
       [el |-> "all_lines",    idx |-> 2, color |-> n, start |-> 500, is_line |-> TRUE],
       [el |-> "all_lines",    idx |-> 1, color |-> n, start |-> 550, is_line |-> TRUE],
       [el |-> "right_circle", idx |-> 0, color |-> n, start |-> 600, is_line |-> FALSE] >>

\* one call short
NumCallsShort == Len(FlashCalls) - 1

\* the number of calls of lines 116-131
NumCalls == Len(FlashCalls)

\* the element a call names
Target(c) ==
    CASE c.el = "left_circle" -> left_circle
      [] c.el = "right_circle" -> right_circle
      [] c.el = "all_lines" -> all_lines[c.idx + 1]

\* lines 116-131, one call
FlashCall ==
    /\ pc = "flashes"
    /\ calls < NumCalls
    /\ LET c == FlashCalls[calls + 1]
       IN  flash(Target(c), c.color, c.start, c.is_line)
    /\ calls' = calls + 1
    /\ first' = IF calls = 0 THEN FlashReturn ELSE first
    /\ final' = IF calls + 1 = NumCalls THEN FlashReturn ELSE final
    /\ pc' = IF calls + 1 = NumCalls THEN "rewrite" ELSE "flashes"
    /\ ri' = 0
    /\ UNCHANGED <<i, j, all_lines, circle_elems, left_circle, right_circle,
                   files>>
    /\ UNCHANGED play_vars

\* the chained begin without the offset after the end event
LoopBeginNoOffset(begin, fin) ==
    begin \o <<";", " ">> \o get_id(fin) \o <<".", "e", "n", "d">>

\* the right-hand side of line 134
LoopBegin(begin, fin) ==
    begin \o <<";", " ">> \o get_id(fin) \o <<".", "e", "n", "d">> \o begin

\* the loop leaving the final step as it is
RewriteBeginSkipFinal(a) ==
    IF a = final THEN dwg[a].begin
    ELSE dwg[a].begin \o <<";", " ">> \o get_id(final)
                      \o <<".", "e", "n", "d">> \o dwg[a].begin

\* the begin attribute the loop of lines 133-134 leaves on a step
RewriteBegin(a) == LoopBegin(dwg[a].begin, final)

\* lines 133-134, one iteration
Rewrite ==
    /\ pc = "rewrite"
    /\ ri < Len(anims)
    /\ dwg' = [dwg EXCEPT ![anims[ri + 1]].begin = RewriteBegin(anims[ri + 1])]
    /\ ri' = ri + 1
    /\ pc' = IF ri + 1 = Len(anims) THEN "save_active" ELSE "rewrite"
    /\ UNCHANGED <<i, j, all_lines, circle_elems, left_circle, right_circle,
                   anims, first, final, calls, last_call, files>>
    /\ UNCHANGED play_vars

\* line 136
SaveActive ==
    /\ pc = "save_active"
    /\ files' = saveas("cayley_active.svg")
    /\ pc' = "done"
    /\ UNCHANGED <<i, j, dwg, all_lines, circle_elems, left_circle,
                   right_circle, anims, first, final, calls, ri, last_call>>
    /\ UNCHANGED play_vars

-----------------------------------------------------------------------------
(* Any call of flash: the function on arguments the script does not use *)

Colors == {n, b}

\* the elements a flash can name: the lines and circles drawn
Drawn == {e \in 1..Len(dwg) : dwg[e].tag # "animate"}

FlashAny ==
    /\ pc = "flashes"
    /\ calls < MaxCalls
    /\ \E e \in Drawn, c \in Colors, s \in 0..MaxStart, l \in BOOLEAN :
           flash(e, c, 25 * s, l)
    /\ calls' = calls + 1
    /\ UNCHANGED <<pc, i, j, all_lines, circle_elems, left_circle,
                   right_circle, first, final, ri, files>>
    /\ UNCHANGED play_vars

-----------------------------------------------------------------------------
(* Playback of the animated file: the begin and dur attributes the script  *)
(* wrote are read back as texts.  A begin attribute is a list of items     *)
(* separated by ";": an offset from the load of the document ("+1.50s"),   *)
(* or an offset from the end of the step with a given id                   *)
(* ("id51.end+1.50s").  A step runs from each of its begin instants for    *)
(* its dur, and a step that begins while it is running starts anew.        *)

Doc == files["cayley_active.svg"]

Steps == {a \in 1..Len(Doc) : Doc[a].tag = "animate"}

DigitVal(c) == CHOOSE d \in 0..9 : Digit(d) = c

IsDigit(c) == \E d \in 0..9 : Digit(d) = c

RECURSIVE Num(_)
Num(s) == IF s = <<>> THEN 0
          ELSE 10 * Num(SubSeq(s, 1, Len(s) - 1)) + DigitVal(s[Len(s)])

RECURSIVE Pow10(_)
Pow10(k) == IF k = 0 THEN 1 ELSE 10 * Pow10(k - 1)

\* the first position of character c in s, or 0
IndexOf(s, c) ==
    IF \E k \in 1..Len(s) : s[k] = c
    THEN CHOOSE k \in 1..Len(s) : s[k] = c /\ \A m \in 1..(k - 1) : s[m] # c
    ELSE 0

\* a clock value "[+]digits[.digits]s" in centiseconds
ParseClock(s) ==
    LET body == IF s # <<>> /\ Head(s) = "+" THEN Tail(s) ELSE s
        num  == SubSeq(body, 1, Len(body) - 1)
        dot  == IndexOf(num, ".")
        int  == IF dot = 0 THEN num ELSE SubSeq(num, 1, dot - 1)
        frac == IF dot = 0 THEN <<>> ELSE SubSeq(num, dot + 1, Len(num))
    IN  Num(int) * 100 + (Num(frac) * 100) \div Pow10(Len(frac))

Least(S) == CHOOSE t \in S : \A u \in S : t <= u

\* the items of s between the separators sep
Split(s, sep) ==
    LET cuts   == {k \in 1..Len(s) : s[k] = sep}
        starts == {1} \cup {k + 1 : k \in cuts}
        stop(p) == IF \E k \in cuts : k >= p
                   THEN Least({k \in cuts : k >= p}) - 1
                   ELSE Len(s)
    IN  {SubSeq(s, p, stop(p)) : p \in starts}

RECURSIVE Strip(_)
Strip(s) == IF s # <<>> /\ Head(s) = " " THEN Strip(Tail(s)) ELSE s

\* one item of a begin list: base is 0 for an offset from the load, or the
\* element whose end the offset counts from
ParseItem(item) ==
    IF item[1] = "+" \/ IsDigit(item[1])
    THEN [base |-> 0, off |-> ParseClock(item)]
    ELSE LET dot  == IndexOf(item, ".")
             name == SubSeq(item, 1, dot - 1)
             who  == {e \in 1..Len(Doc) : get_id(e) = name}
         IN  [base |-> IF who = {} THEN -1 ELSE CHOOSE e \in who : TRUE,
              off  |-> ParseClock(SubSeq(item, dot + 4, Len(item)))]

BeginList(a) == {ParseItem(Strip(item)) : item \in Split(Doc[a].begin, ";")}

Dur(a) == ParseClock(Doc[a].dur)

\* the begin instants that the items counting from one of bases give the
\* steps, when the base's event is at time t
Instants(tm, bases, t) ==
    UNION {{[anim |-> a, at |-> t + it.off] :
               it \in {x \in tm[a].begins : x.base \in bases}} : a \in DOMAIN tm}

\* the document is loaded: the begin and dur attributes are parsed, and
\* every offset item is a begin instant
Load ==
    /\ pc = "done"
    /\ pc' = "playing"
    /\ \E tm \in {[a \in Steps |-> [begins |-> BeginList(a), dur |-> Dur(a)]]} :
          /\ timing' = tm
          /\ pending' = Instants(tm, {0}, 0)
    /\ now' = 0
    /\ active' = {} /\ began' = {} /\ ended' = {}
    /\ cycle' = 0
    /\ UNCHANGED <<i, j, dwg, all_lines, circle_elems, left_circle,
                   right_circle, anims, first, final, calls, ri, last_call, files>>

\* the steps that end at time t: those whose dur is over, and those that
\* begin anew while running
EndingAt(t) ==
    {x \in active : x.until = t}
        \cup {x \in active : x.until > t /\
                 \E p \in pending : p.anim = x.anim /\ p.at = t}

\* time moves to the next instant at which a step ends or begins.  Steps
\* that end fire their end event first, which gives the steps counting from
\* it new begin instants; then the steps due at this instant begin.  When
\* the final step ends, time is counted from that instant again.
Advance ==
    /\ pc = "playing"
    /\ {p.at : p \in pending} \cup {x.until : x \in active} # {}
    /\ \E t \in {Least({p.at : p \in pending} \cup {x.until : x \in active})} :
       \E ending \in {EndingAt(t)} :
       \E endedNow \in {{x.anim : x \in ending}} :
       \E pend2 \in {pending \cup Instants(timing, endedNow, t)} :
       \E starting \in {{p.anim : p \in {q \in pend2 : q.at = t}}} :
       \E shift \in {IF final \in endedNow THEN t ELSE 0} :
           /\ now' = t - shift
           /\ pending' = {[anim |-> p.anim, at |-> p.at - shift] :
                             p \in {q \in pend2 : q.at > t}}
           /\ active' =
                 {[anim |-> x.anim, from |-> x.from - shift,
                   until |-> x.until - shift] :
                     x \in {z \in active \ ending : z.anim \notin starting}}
                 \cup {[anim |-> a, from |-> t - shift,
                        until |-> t + timing[a].dur - shift] : a \in starting}
           /\ began' = starting
           /\ ended' = endedNow
           /\ cycle' = IF final \in endedNow /\ cycle < MaxCycles
                       THEN cycle + 1 ELSE cycle
    /\ UNCHANGED timing
    /\ UNCHANGED build_vars

-----------------------------------------------------------------------------
(* Specifications *)

Build ==
    \/ FanEdges \/ SkipPair \/ DrawPair \/ RingCircle \/ FanCircles
    \/ SaveStatic

Next == Build \/ FlashCall \/ Rewrite \/ SaveActive \/ Load \/ Advance

\* the script, followed by the playback of the animated file
Spec == Init /\ [][Next]_vars

\* the script runs on and the time of the playback passes
LiveSpec == Spec /\ WF_vars(Next)

NextFlash == Build \/ FlashAny

\* the script up to the static file, then flash called with any arguments
SpecFlash == Init /\ [][NextFlash]_vars

-----------------------------------------------------------------------------
(* Claims C1 and C2: the edge selector *)

\* a line from ring node a to ring node d is in the drawing
RingLine(a, d) ==
    \E k \in 1..Len(dwg) :
        /\ dwg[k].tag = "line"
        /\ dwg[k].start = ring_centers[a + 1]
        /\ dwg[k].end = ring_centers[d + 1]

\* none of the skip rules of the rule table matches
NoRuleMatches(a, d) ==
    /\ (a % 3) # (d % 3)
    /\ <<a % 3, d % 3>> \notin {<<1, 2>>, <<2, 1>>}
    /\ <<a, d>> # <<0, 3>>

\* the loop has decided the pair (a, d)
Decided(a, d) ==
    /\ pc # "fan_edges"
    /\ pc = "ring_edges" => (a < i \/ (a = i /\ d < j))

\* C1: a line between ring nodes a and d is drawn if and only if a < d and
\* none of the skip rules matches (same class mod 3; classes (1,2) or (2,1);
\* the pair (0,3)); no line is drawn for a pair with a >= d.  It holds of
\* every pair the loop has decided, and no undecided pair has a line.
C1_EdgeRule ==
    \A a, d \in 0..5 :
        /\ RingLine(a, d) => Decided(a, d)
        /\ Decided(a, d) => (RingLine(a, d) <=> (a < d /\ NoRuleMatches(a, d)))

\* the loop is over and both drawn and skipped pairs exist
C1_Witness ==
    /\ pc = "ring_circles"
    /\ RingLine(0, 1) /\ RingLine(3, 5)
    /\ ~RingLine(1, 2) /\ ~RingLine(0, 3) /\ ~RingLine(1, 0)

\* the ring pair that the k-th entry of all_lines joins
PairOf(k) ==
    CHOOSE p \in (0..5) \X (0..5) :
        /\ dwg[all_lines[k]].start = ring_centers[p[1] + 1]
        /\ dwg[all_lines[k]].end = ring_centers[p[2] + 1]

LexLess(p, q) == p[1] < q[1] \/ (p[1] = q[1] /\ p[2] < q[2])

SelectionDone == pc \notin {"fan_edges", "ring_edges"}

\* C2: after the selection all_lines holds the fan edge outer-left to
\* ring[3], then the fan edge outer-right to ring[0], then the ring pairs in
\* ascending lexicographic order; no entry joins a node to itself, no ring
\* pair occurs twice in either orientation, and the list is the same list
\* (0,1),(0,2),(0,4),(0,5),(1,3),(2,3),(3,4),(3,5) in every run.
C2_OrderedEdges ==
    SelectionDone =>
        /\ Len(all_lines) = 10
        /\ \A k \in 1..Len(all_lines) : dwg[all_lines[k]].tag = "line"
        /\ dwg[all_lines[1]].start = outer_left
        /\ dwg[all_lines[1]].end = ring_centers[3 + 1]
        /\ dwg[all_lines[2]].start = outer_right
        /\ dwg[all_lines[2]].end = ring_centers[0 + 1]
        /\ \A k \in 3..Len(all_lines) :
              /\ RingLine(PairOf(k)[1], PairOf(k)[2])
              /\ PairOf(k)[1] # PairOf(k)[2]
              /\ k < Len(all_lines) => LexLess(PairOf(k), PairOf(k + 1))
        /\ \A k, m \in 1..Len(all_lines) :
              k # m =>
                 /\ all_lines[k] # all_lines[m]
                 /\ dwg[all_lines[k]].start # dwg[all_lines[k]].end
                 /\ ~(/\ dwg[all_lines[k]].start = dwg[all_lines[m]].start
                      /\ dwg[all_lines[k]].end = dwg[all_lines[m]].end)
                 /\ ~(/\ dwg[all_lines[k]].start = dwg[all_lines[m]].end
                      /\ dwg[all_lines[k]].end = dwg[all_lines[m]].start)
        /\ [k \in 1..8 |-> PairOf(k + 2)] =
              << <<0, 1>>, <<0, 2>>, <<0, 4>>, <<0, 5>>,
                 <<1, 3>>, <<2, 3>>, <<3, 4>>, <<3, 5>> >>

\* the selection has run and the list is in use by the flashes
C2_Witness ==
    /\ pc = "flashes" /\ calls = 3
    /\ Len(all_lines) = 10
    /\ dwg[all_lines[8]].start = ring_centers[2 + 1]

-----------------------------------------------------------------------------
(* Claim C3: flash, called with any arguments *)

Static == files["cayley.svg"]

\* C3: a call flash(element, original_color, start_time, is_stroke) adds
\* exactly two steps, in this order: step A from original_color to the
\* highlight, beginning at start_time and lasting 1.0 s, and step B from
\* the highlight back to original_color, beginning at start_time + 1.0 s
\* and lasting 1.2 s, both on the element's stroke (is_stroke) or fill; so B
\* begins when A ends; and the call returns step B.  For start_time 0 the
\* begin texts are "+0.00s" and "+1.00s".
C3_FlashSteps ==
    calls >= 1 =>
        LET base == last_call.base
            A    == dwg[anims[base + 1]]
            B    == dwg[anims[base + 2]]
            prop == IF last_call.is_line THEN "stroke" ELSE "fill"
        IN  /\ base = 2 * (calls - 1)
            /\ Len(anims) = base + 2
            /\ Len(dwg) = Len(Static) + 2 * calls
            /\ anims[base + 1] = Len(dwg) - 1
            /\ anims[base + 2] = Len(dwg)
            /\ A.tag = "animate" /\ B.tag = "animate"
            /\ A.href = last_call.element /\ B.href = last_call.element
            /\ A.attributeName = prop /\ B.attributeName = prop
            /\ A.from = last_call.orig_color /\ A.to = "#0F9D58"
            /\ B.from = "#0F9D58" /\ B.to = last_call.orig_color
            /\ A.begin[1] = "+" /\ A.begin[Len(A.begin) - 3] = "."
            /\ B.begin[1] = "+" /\ B.begin[Len(B.begin) - 3] = "."
            /\ ParseClock(A.begin) = last_call.start
            /\ ParseClock(B.begin) = last_call.start + 100
            /\ A.dur = <<"1", ".", "0", "s">>
            /\ B.dur = <<"1", ".", "2", "s">>
            /\ ParseClock(B.begin) = ParseClock(A.begin) + ParseClock(A.dur)
            /\ last_call.ret = anims[base + 2]
            /\ last_call.start = 0 =>
                  /\ A.begin = <<"+", "0", ".", "0", "0", "s">>
                  /\ B.begin = <<"+", "1", ".", "0", "0", "s">>

\* a call on a line's stroke, with a colour and a start of its own
C3_Witness ==
    /\ calls >= 1
    /\ last_call.is_line
    /\ last_call.start = 275
    /\ last_call.orig_color = b
    /\ dwg[last_call.ret].to = b

-----------------------------------------------------------------------------
(* Claims C4 to C7 and C9: the script's flashes, files and rewrite *)

AnimEntries(doc) == {k \in 1..Len(doc) : doc[k].tag = "animate"}

\* C4 as stated: the animated file holds 15 flashes x 2 = 30 entries
C4_Original ==
    "cayley_active.svg" \in DOMAIN files =>
        /\ calls = 15
        /\ Cardinality(AnimEntries(Doc)) = 30

\* C4, amended: the script makes 16 flash calls, so the animated file holds
\* 16 x 2 = 32 animation entries
C4_Amended ==
    "cayley_active.svg" \in DOMAIN files =>
        /\ calls = 16
        /\ Len(anims) = 32
        /\ Cardinality(AnimEntries(Doc)) = 32

\* the animated file is written, with animation entries in it
C4_Witness ==
    /\ pc = "done"
    /\ "cayley_active.svg" \in DOMAIN files
    /\ AnimEntries(Doc) # {}

BeforeRewrite == pc = "rewrite" /\ ri = 0

\* C6 as stated: before the rewrite the final step begins at "+6.00s"
C6_Original ==
    BeforeRewrite => dwg[final].begin = <<"+", "6", ".", "0", "0", "s">>

\* C6, amended: before the rewrite the final step (step B of the last
\* flash, the last step registered) begins at "+7.00s"; "+6.00s" is the
\* begin of step A of that flash
C6_Amended ==
    BeforeRewrite =>
        /\ final = last_call.ret
        /\ final = anims[Len(anims)]
        /\ dwg[final].begin = <<"+", "7", ".", "0", "0", "s">>
        /\ dwg[anims[Len(anims) - 1]].begin = <<"+", "6", ".", "0", "0", "s">>

\* all flashes are registered and the rewrite has not started
C6_Witness ==
    /\ BeforeRewrite
    /\ final # 0
    /\ dwg[final].href = right_circle

\* the loop of lines 133-134 has rewritten the k-th registered step
Rewritten(k) ==
    \/ pc \in {"save_active", "done", "playing"}
    \/ pc = "rewrite" /\ k <= ri

\* the offset flash gave the k-th registered step
OffsetOf(k) ==
    FlashCalls[(k + 1) \div 2].start + (IF k % 2 = 0 THEN 100 ELSE 0)

Contains(s, t) ==
    \E k \in 1..(Len(s) - Len(t) + 1) : SubSeq(s, k, k + Len(t) - 1) = t

\* the reference to the final step's completion event
EndRef == get_id(final) \o <<".", "e", "n", "d">>

\* C7: the rewrite reaches every registered step, the final step included:
\* a step whose begin was the offset text T ("+Ts") then has the begin
\* T; <id of final>.end T, so every step refers to the end of the final
\* step, and so does the final step itself.  A step the loop has not
\* reached yet still has its plain offset.
C7_RewriteAll ==
    pc \in {"rewrite", "save_active", "done", "playing"} =>
        /\ final = anims[Len(anims)]
        /\ \A k \in 1..Len(anims) :
              LET bg   == dwg[anims[k]].begin
                  semi == IndexOf(bg, ";")
                  T    == IF semi = 0 THEN bg ELSE SubSeq(bg, 1, semi - 1)
              IN  /\ T[1] = "+" /\ T[Len(T)] = "s"
                  /\ ParseClock(T) = OffsetOf(k)
                  /\ Rewritten(k) =>
                        /\ bg = T \o <<";", " ">> \o EndRef \o T
                        /\ Contains(bg, EndRef)
                  /\ ~Rewritten(k) => bg = T

\* the loop is over and the final step refers to its own end
C7_Witness ==
    /\ pc = "save_active"
    /\ dwg[final].begin =
          <<"+", "7", ".", "0", "0", "s", ";", " ">> \o get_id(final)
             \o <<".", "e", "n", "d", "+", "7", ".", "0", "0", "s">>

\* the colour an element is drawn with
StaticColor(e) == IF dwg[e].tag = "line" THEN dwg[e].stroke ELSE dwg[e].fill

\* C9: every registered step animates the stroke exactly if its target is
\* a line and the fill exactly if its target is a circle; the way in starts
\* from, and the way back ends on, the colour the target is drawn with; and
\* green is the highlight only: no line or circle is drawn green.
C9_Colours ==
    /\ \A k \in 1..Len(anims) :
          LET a == dwg[anims[k]]
              t == dwg[a.href]
          IN  /\ a.tag = "animate"
              /\ t.tag \in {"line", "circle"}
              /\ a.attributeName = "stroke" <=> t.tag = "line"
              /\ a.attributeName = "fill" <=> t.tag = "circle"
              /\ k % 2 = 1 => a.from = StaticColor(a.href) /\ a.to = "#0F9D58"
              /\ k % 2 = 0 => a.from = "#0F9D58" /\ a.to = StaticColor(a.href)
    /\ \A e \in 1..Len(dwg) :
          dwg[e].tag # "animate" => StaticColor(e) # "#0F9D58"
    /\ AnimEntries(dwg) = {anims[k] : k \in 1..Len(anims)}

\* all flashes are registered, on strokes and on fills
C9_Witness ==
    /\ pc = "rewrite"
    /\ \E k \in 1..Len(anims) : dwg[anims[k]].attributeName = "stroke"
    /\ \E k \in 1..Len(anims) : dwg[anims[k]].attributeName = "fill"

-----------------------------------------------------------------------------
(* Claims C8 and C10: the playback *)

\* the offset from the load that a step's begin attribute gives
LoadOff(a) == (CHOOSE it \in timing[a].begins : it.base = 0).off

\* C8: played from the load, the animation loops for ever: whenever the
\* final step ends, every registered step (the final step too) is due
\* again at its own offset after that end; every step begins at its offset
\* after the load or after the latest end of the final step; every step
\* begins infinitely often, and the final step ends infinitely often.
C8_LoopsForEver ==
    /\ [](pc = "playing" =>
            /\ \A a \in began : now = LoadOff(a)
            /\ final \in ended =>
                  /\ now = 0
                  /\ \A a \in Steps :
                        \/ [anim |-> a, at |-> LoadOff(a)] \in pending
                        \/ LoadOff(a) = 0 /\ a \in began)
    /\ \A k \in 1..(2 * Len(FlashCalls)) :
          []<>(pc = "playing" /\ k <= Len(anims) /\ anims[k] \in began)
    /\ []<>(pc = "playing" /\ final \in ended)

\* the final step has ended a second time and the first step begins again
C8_Witness ==
    /\ pc = "playing"
    /\ cycle >= 2
    /\ final \in ended
    /\ anims[1] \in began

\* C10: at every instant of the playback at most one step is running on
\* any one element.  Two flashes of one element begin more than 2.2 s
\* apart, and no step ends later than the final step.
C10_OneStepPerElement ==
    pc = "playing" =>
        /\ \A u, v \in active :
              u # v => Doc[u.anim].href # Doc[v.anim].href
        /\ \A a, c \in {s \in Steps : Doc[s].to = "#0F9D58"} :
              (a # c /\ Doc[a].href = Doc[c].href) =>
                 (LoadOff(a) - LoadOff(c) > 220 \/ LoadOff(c) - LoadOff(a) > 220)
        /\ \A a \in Steps :
              LoadOff(a) + timing[a].dur <= LoadOff(final) + timing[final].dur

\* in a repeated cycle, the second flash of the left circle is running
C10_Witness ==
    /\ pc = "playing"
    /\ cycle >= 1
    /\ \E u \in active : u.anim = anims[17] /\ Doc[u.anim].href = left_circle

=============================================================================
